---- MODULE Spec2Model ----
(***************************************************************************)
(* Model of src/src/App.tsx: the React component App, its scene-building   *)
(* effect (re-run on every change of isHealthy), the asynchronous GLTF     *)
(* load with its procedural fallback, the requestAnimationFrame render     *)
(* loop and the effect cleanup.                                            *)
(*                                                                         *)
(* Every run of the effect builds its own scene, renderer, kidneyModel     *)
(* slot, loadModel/loadFallback/animate closures; the closures read the    *)
(* isHealthy and isRotating values of the render that ran the effect.      *)
(* Lengths are in thousandths of a scene unit, angles in thousandths of a  *)
(* radian; fractions are exact pairs [n, d].                               *)
(***************************************************************************)
EXTENDS Integers, Sequences, FiniteSets

\* ------------------------------------------------------------ bounds
\* Runs of the scene-building effect (mounts) in one behaviour.
MaxEffects == 2
\* Rotation steps applied to organ nodes in one behaviour.
MaxRotations == 2

\* --------------------------------------------------- program constants
Unit == 1000
\* kidneyModel.rotation.y += 0.01
RotationStep == 10
\* 0xff6b6b
HealthyColor == 16739179
\* 0x8b0000
PathologicalColor == 9109504
\* 0xffffaa
CystColor == 16777130
\* 0x000000
IndentColor == 0
\* for (let i = 0; i < 3; i++)
CystCount == 3

VARIABLES isHealthy, isRotating, isLoading, sceneRef, mounted, effects, nodes

vars == <<isHealthy, isRotating, isLoading, sceneRef, mounted, effects, nodes>>

\* ------------------------------------------------------------ helpers
Max2(a, b) == IF a >= b THEN a ELSE b

Min2(a, b) == IF a <= b THEN a ELSE b

Max3(t) == Max2(t[1], Max2(t[2], t[3]))

Axes == 1..3

Abs(x) == IF x < 0 THEN -x ELSE x

RECURSIVE Gcd(_, _)
Gcd(a, b) == IF b = 0 THEN a ELSE Gcd(b, a % b)

\* The fraction n/d, d > 0, in lowest terms.
Frac(n, d) == LET g == Gcd(Abs(n), d) IN [n |-> n \div g, d |-> d \div g]

\* a/b = c/d
FracEq(a, b) == a.n * b.d = b.n * a.d

FracLeq(a, b) == a.n * b.d <= b.n * a.d

\* x * s + p for an integer x and fractions s, p
Affine(x, s, p) == Frac(x * s.n * p.d + p.n * s.d, s.d * p.d)

\* ------------------------------------------------ material and assets
MaterialColorAlwaysHealthy(h) == HealthyColor

MaterialColor(h) == IF h THEN HealthyColor ELSE PathologicalColor

ModelPath(h) ==
    IF h THEN [name |-> "/models/human_kidney", ext |-> "glb"]
         ELSE [name |-> "/models/polycystic_kidney", ext |-> "glb"]

IsGltfPath(p) == p.ext \in {"glb", "gltf"}

Box(lo, hi) == [lo |-> lo, hi |-> hi]

Mesh(kind, color, box) == [kind |-> kind, color |-> color, box |-> box]

\* What GLTFLoader can hand to onLoad: a scene whose root has the identity
\* transform and whose meshes carry the asset's own materials, in asset
\* units and at any offset.
GltfScenes ==
    { <<Mesh("asset", 8421504, Box(<<-100, -300, -50>>, <<100, 300, 50>>))>>,
      <<Mesh("asset", 8421504, Box(<<-1500, 200, 0>>, <<500, 700, 1000>>)),
        Mesh("asset", 255, Box(<<0, 300, 500>>, <<400, 600, 3000>>))>> }

\* Math.random() samples, in thousandths; one 4-tuple per cyst: the three
\* draws of position.set and the draw of scale.setScalar.
CystRandoms == { <<0, 0, 0, 0>>, <<950, 500, 950, 950>> }

RandomDraws == [1..CystCount -> CystRandoms]

\* ------------------------------------------------------------ Box3
\* new THREE.Box3().setFromObject(obj) for an object whose own transform
\* is the identity: the union of its meshes' boxes.
RECURSIVE UnionBox(_, _)
UnionBox(meshes, i) ==
    IF i = Len(meshes) THEN meshes[i].box
    ELSE LET r == UnionBox(meshes, i + 1)
             b == meshes[i].box
         IN Box([a \in Axes |-> Min2(b.lo[a], r.lo[a])],
                [a \in Axes |-> Max2(b.hi[a], r.hi[a])])

SetFromObject(meshes) == UnionBox(meshes, 1)

GetSize(box) == [a \in Axes |-> box.hi[a] - box.lo[a]]

\* getCenter: (lo + hi) / 2 on each axis
GetCenter(box) == [a \in Axes |-> Frac(box.lo[a] + box.hi[a], 2)]

\* ------------------------------------------------------------ nodes
Identity == [scale |-> Frac(1, 1), position |-> [a \in Axes |-> Frac(0, 1)]]

\* The onLoad callback's work on gltf.scene: recolour every mesh, then
\* scale by 2 / max extent and move the box centre to the origin.
RecolorAll(meshes, h) ==
    [i \in DOMAIN meshes |-> [meshes[i] EXCEPT !.color = MaterialColor(h)]]

NormalizeScale(box) == Frac(2 * Unit, Max3(GetSize(box)))

NormalizePosition(box) ==
    LET scale == NormalizeScale(box)
        center == GetCenter(box)
    IN [a \in Axes |-> Frac(-center[a].n * scale.n, center[a].d * scale.d)]

\* An Object3D of the scene graph: its meshes' materials, the box of its
\* geometry in its own frame, its transform.
Node(kind, meshes, scale, position) ==
    [kind |-> kind,
     meshes |-> [i \in DOMAIN meshes |-> [kind |-> meshes[i].kind, color |-> meshes[i].color]],
     box |-> SetFromObject(meshes),
     scale |-> scale,
     position |-> position,
     rotationY |-> 0]

LoadedNode(gltf, h) ==
    LET box == SetFromObject(gltf)
    IN Node("gltf", RecolorAll(gltf, h), NormalizeScale(box), NormalizePosition(box))

\* loadFallback's group: body, indent, and the cysts of the unhealthy organ.
BodyMesh(h) ==
    Mesh("body", MaterialColor(h),
         Box(<<-Unit, -(Unit * 7) \div 10, -(Unit * 5) \div 10>>,
             <<Unit, (Unit * 7) \div 10, (Unit * 5) \div 10>>))

IndentMesh ==
    LET r == (Unit * 45) \div 100
        x == -(Unit * 6) \div 10
    IN Mesh("indent", IndentColor,
            Box(<<x - r, -(r * 7) \div 10, -(r * 5) \div 10>>,
                <<x + r, (r * 7) \div 10, (r * 5) \div 10>>))

CystMesh(rnd) ==
    LET x == (rnd[1] * 8) \div 10 - (Unit * 4) \div 10
        y == (rnd[2] * 4) \div 10 - (Unit * 2) \div 10
        z == (rnd[3] * 2) \div 10 + (Unit * 2) \div 10
        s == (rnd[4] * 3) \div 10 + (Unit * 2) \div 10
        r == (((Unit * 2) \div 10) * s) \div Unit
    IN Mesh("cyst", CystColor, Box(<<x - r, y - r, z - r>>, <<x + r, y + r, z + r>>))

RECURSIVE CystLoop(_, _)
CystLoop(i, rnds) ==
    IF i < CystCount THEN <<CystMesh(rnds[i + 1])>> \o CystLoop(i + 1, rnds)
    ELSE <<>>

FallbackMeshesLoopFromOne(h, rnds) ==
    <<BodyMesh(h), IndentMesh>> \o (IF ~h THEN CystLoop(1, rnds) ELSE <<>>)

FallbackMeshes(h, rnds) ==
    <<BodyMesh(h), IndentMesh>> \o (IF ~h THEN CystLoop(0, rnds) ELSE <<>>)

FallbackNode(h, rnds) ==
    Node("group", FallbackMeshes(h, rnds), Identity.scale, Identity.position)

\* The node's box in the scene: its meshes' box under its scale and position.
WorldBox(node) ==
    LET b == node.box
    IN Box([a \in Axes |-> Affine(b.lo[a], node.scale, node.position[a])],
           [a \in Axes |-> Affine(b.hi[a], node.scale, node.position[a])])

\* ------------------------------------------------------ effect closure
\* As if one scene were shared by all runs of the effect.
SceneAddShared(effs, e, n) == [effs EXCEPT ![Len(effs)].scene = Append(@, n)]

\* scene.add(kidneyModel): the scene is the one the closure was built with.
SceneAdd(effs, e, n) == [effs EXCEPT ![e].scene = Append(@, n)]

\* if (kidneyModel) scene.remove(kidneyModel)
SceneRemove(eff) ==
    IF eff.kidneyModel # 0
    THEN [eff EXCEPT !.scene = SelectSeq(@, LAMBDA n : n # eff.kidneyModel)]
    ELSE eff

\* One run of the scene-building effect up to the call of loadModel: a new
\* scene, a renderer whose canvas is appended to the mount, an empty
\* kidneyModel slot, and the isHealthy / isRotating of the current render.
NewEffect(h, r) ==
    [isHealthy |-> h, isRotating |-> r, kidneyModel |-> 0, scene |-> <<>>,
     load |-> "none", inDom |-> TRUE, disposals |-> 0, raf |-> FALSE]

\* loadModel up to loader.load: the request is issued and left pending.
LoadModel(eff) == [SceneRemove(eff) EXCEPT !.load = "pending"]

\* One call of animate on the closure's state after requestAnimationFrame
\* has rescheduled it; the rotation itself is applied to the node.
AnimateEffect(eff) == [eff EXCEPT !.raf = TRUE]

RECURSIVE TotalRotation(_, _)
TotalRotation(ns, i) ==
    IF i > Len(ns) THEN 0 ELSE ns[i].rotationY + TotalRotation(ns, i + 1)

Rotates(eff) == eff.isRotating /\ eff.kidneyModel # 0

Rotate(eff, ns) ==
    IF Rotates(eff)
    THEN [ns EXCEPT ![eff.kidneyModel].rotationY = @ + RotationStep]
    ELSE ns

CleanupKeepsRenderer(eff) == [eff EXCEPT !.inDom = FALSE]

\* The effect's cleanup: the canvas leaves the mount, the renderer is disposed.
Cleanup(eff) == [eff EXCEPT !.inDom = FALSE, !.disposals = @ + 1]

Current == Len(effects)

Effects == 1..Len(effects)

\* ------------------------------------------------------------ Init
\* The state after the first render and the first run of the effect.
Init ==
    /\ isHealthy = TRUE
    /\ isRotating = TRUE
    /\ isLoading = TRUE
    /\ mounted = TRUE
    /\ nodes = <<>>
    /\ effects = <<AnimateEffect(LoadModel(NewEffect(TRUE, TRUE)))>>
    /\ sceneRef = [effect |-> 1, kidneyModel |-> 0]

\* ------------------------------------------------------------ actions
\* loadFallback run by effect e's closure.
LoadFallback(e, rnds) ==
    LET n == Len(nodes) + 1
    IN /\ nodes' = Append(nodes, FallbackNode(effects[e].isHealthy, rnds))
       /\ effects' = SceneAdd([effects EXCEPT ![e].kidneyModel = n,
                                              ![e].load = "done"], e, n)
       /\ isLoading' = IF mounted THEN FALSE ELSE isLoading

\* setIsHealthy(v) from one of the two buttons, the re-render, the cleanup
\* of the previous effect and the run of the new one (React flushes the
\* effects of a click before any other callback runs).
SetIsHealthy(v) ==
    /\ mounted
    /\ v # isHealthy
    /\ Len(effects) < MaxEffects
    /\ isHealthy' = v
    /\ IF IsGltfPath(ModelPath(v))
       THEN /\ effects' = Append([effects EXCEPT ![Current] = Cleanup(@)],
                                 AnimateEffect(LoadModel(NewEffect(v, isRotating))))
            /\ isLoading' = TRUE
            /\ nodes' = nodes
       ELSE \E rnds \in RandomDraws :
            LET n == Len(nodes) + 1
                eff == [LoadModel(NewEffect(v, isRotating)) EXCEPT
                           !.kidneyModel = n, !.load = "done", !.scene = Append(@, n)]
            IN /\ effects' = Append([effects EXCEPT ![Current] = Cleanup(@)],
                                    AnimateEffect(eff))
               /\ nodes' = Append(nodes, FallbackNode(v, rnds))
               /\ isLoading' = FALSE
    /\ sceneRef' = [effect |-> Current + 1, kidneyModel |-> 0]
    /\ UNCHANGED <<isRotating, mounted>>

\* A click on a button whose value is already set: React bails out.
SetIsHealthySame(v) ==
    /\ mounted
    /\ v = isHealthy
    /\ UNCHANGED vars

\* setIsRotating(!isRotating): a re-render, no effect runs again.
SetIsRotating ==
    /\ mounted
    /\ isRotating' = ~isRotating
    /\ UNCHANGED <<isHealthy, isLoading, sceneRef, mounted, effects, nodes>>

\* loader.load's onLoad callback of effect e.
LoadSuccess(e, gltf) ==
    /\ effects[e].load = "pending"
    /\ LET n == Len(nodes) + 1
       IN /\ nodes' = Append(nodes, LoadedNode(gltf, effects[e].isHealthy))
          /\ effects' = SceneAdd([effects EXCEPT ![e].kidneyModel = n,
                                                 ![e].load = "done"], e, n)
    /\ isLoading' = IF mounted THEN FALSE ELSE isLoading
    /\ UNCHANGED <<isHealthy, isRotating, sceneRef, mounted>>

\* loader.load's onError callback of effect e.
LoadError(e, rnds) ==
    /\ effects[e].load = "pending"
    /\ LoadFallback(e, rnds)
    /\ UNCHANGED <<isHealthy, isRotating, sceneRef, mounted>>

\* A requestAnimationFrame callback of effect e's render loop.
Animate(e) ==
    /\ effects[e].raf
    /\ Rotates(effects[e]) => TotalRotation(nodes, 1) < MaxRotations * RotationStep
    /\ effects' = [effects EXCEPT ![e] = AnimateEffect(@)]
    /\ nodes' = Rotate(effects[e], nodes)
    /\ UNCHANGED <<isHealthy, isRotating, isLoading, sceneRef, mounted>>

\* The component leaves the page: the last effect's cleanup runs.
Unmount ==
    /\ mounted
    /\ mounted' = FALSE
    /\ effects' = [effects EXCEPT ![Current] = Cleanup(@)]
    /\ UNCHANGED <<isHealthy, isRotating, isLoading, sceneRef, nodes>>

Next ==
    \/ \E v \in BOOLEAN : SetIsHealthy(v)
    \/ \E v \in BOOLEAN : SetIsHealthySame(v)
    \/ SetIsRotating
    \/ \E e \in Effects, gltf \in GltfScenes : LoadSuccess(e, gltf)
    \/ \E e \in Effects, rnds \in RandomDraws : LoadError(e, rnds)
    \/ \E e \in Effects : Animate(e)
    \/ Unmount

Spec == Init /\ [][Next]_vars

\* ------------------------------------------------------------ views
\* Organ nodes attached to some scene (nothing in the component disposes one).
AttachedNodes ==
    { n \in 1..Len(nodes) :
        \E e \in Effects : \E i \in DOMAIN effects[e].scene : effects[e].scene[i] = n }

\* The organ nodes of the scene whose canvas is in the page.
DisplayedNodes ==
    { effects[Current].scene[i] : i \in DOMAIN effects[Current].scene }

\* Effects whose render loop has a callback scheduled.
LiveLoops == { e \in Effects : effects[e].raf }

NoLoadInFlight == \A e \in Effects : effects[e].load = "done"

CountKind(meshes, kind) == Cardinality({ i \in DOMAIN meshes : meshes[i].kind = kind })

\* Largest extent 2 and centre at the origin.
IsNormalized(wb) ==
    /\ \A a \in Axes : wb.lo[a].n * wb.hi[a].d + wb.hi[a].n * wb.lo[a].d = 0
    /\ \A a \in Axes :
         FracLeq(Frac(wb.hi[a].n * wb.lo[a].d - wb.lo[a].n * wb.hi[a].d,
                      wb.hi[a].d * wb.lo[a].d), Frac(2 * Unit, 1))
    /\ \E a \in Axes :
         FracEq(Frac(wb.hi[a].n * wb.lo[a].d - wb.lo[a].n * wb.hi[a].d,
                     wb.hi[a].d * wb.lo[a].d), Frac(2 * Unit, 1))

\* ------------------------------------------------------------ claims

\* C1: once the rotation toggle has set rotating to false, a tick of the
\* displayed organ's render loop leaves its angle unchanged, and while
\* rotating is true each tick advances it by the fixed step, with no change
\* of healthy needed for the toggle to take effect.
C1_TickFollowsRotatingFlag ==
    [][\A e \in Effects :
         (mounted /\ e = Current /\ effects[e].kidneyModel # 0 /\ Animate(e))
         => nodes'[effects[e].kidneyModel].rotationY
              = nodes[effects[e].kidneyModel].rotationY
                  + (IF isRotating THEN RotationStep ELSE 0)]_vars

\* C2: at most one organ node exists that has not been detached and
\* disposed, however many times healthy was toggled.
C2_AtMostOneOrganRetained == Cardinality(AttachedNodes) <= 1

\* C3: while the load issued for the current healthy value has not
\* completed, loading is true, whatever earlier loads do.
C3_LoadingWhileCurrentLoadPending ==
    (mounted /\ effects[Current].load = "pending") => isLoading

\* C4: once loading is false (which only a completion can make it), the
\* current scene has an organ node attached; the eventual clearing of the
\* flag rests on this safety part, which is the conjunct stated here.
C4_LoadingClearedImpliesOrganShown ==
    (mounted /\ ~isLoading) => DisplayedNodes # {}

\* C5: when no load is in flight, the displayed scene holds an organ and
\* every asset mesh or fallback body of it has the colour keyed to the
\* current healthy value, also when an earlier load resolved after a flip.
C5_SettledColourMatchesHealth ==
    (mounted /\ NoLoadInFlight) =>
        /\ DisplayedNodes # {}
        /\ \A n \in DisplayedNodes :
             /\ \E i \in DOMAIN nodes[n].meshes : nodes[n].meshes[i].kind \in {"asset", "body"}
             /\ \A i \in DOMAIN nodes[n].meshes :
                  nodes[n].meshes[i].kind \in {"asset", "body"}
                  => nodes[n].meshes[i].color
                       = (IF isHealthy THEN 16739179 ELSE 9109504)

C5_Witness ==
    /\ mounted /\ NoLoadInFlight /\ Len(effects) = 2 /\ ~isHealthy
    /\ effects[1].kidneyModel > effects[2].kidneyModel
    /\ nodes[effects[2].kidneyModel].kind = "gltf"

\* C6: a render loop stops rescheduling once its mount is torn down: no
\* loop with a disposed renderer has a callback scheduled, and at most one
\* loop is live.
C6_NoLoopAfterTeardown ==
    /\ \A e \in LiveLoops : effects[e].disposals = 0
    /\ Cardinality(LiveLoops) <= 1

\* C7: every organ node attached to a scene, loaded or fallback, is
\* normalized: largest bounding-box extent 2, box centred at the origin.
C7_AttachedNodesNormalized ==
    \A n \in AttachedNodes : IsNormalized(WorldBox(nodes[n]))

\* C8: every renderer is disposed exactly once by its own effect's
\* cleanup: none twice, and the only renderer not yet disposed is the one
\* of the current effect of a mounted component.
C8_RendererDisposedOnce ==
    \A e \in Effects :
        /\ effects[e].disposals <= 1
        /\ (effects[e].disposals = 0) <=> (mounted /\ e = Current)

C8_Witness ==
    /\ ~mounted /\ Len(effects) = 2
    /\ \A e \in Effects : effects[e].disposals = 1 /\ ~effects[e].inDom

\* C9: a fallback group has one body and one indentation mesh, and exactly
\* 3 cysts when built for healthy = false, none when built for healthy = true,
\* whatever the random draws.
C9_FallbackStructure ==
    \A e \in Effects :
        (effects[e].kidneyModel # 0 /\ nodes[effects[e].kidneyModel].kind = "group")
        => LET ms == nodes[effects[e].kidneyModel].meshes
           IN /\ CountKind(ms, "body") = 1
              /\ CountKind(ms, "indent") = 1
              /\ CountKind(ms, "cyst") = (IF effects[e].isHealthy THEN 0 ELSE 3)
              /\ Len(ms) = (IF effects[e].isHealthy THEN 2 ELSE 5)

C9_Witness ==
    /\ Len(effects) = 2
    /\ \A e \in Effects :
         effects[e].kidneyModel # 0 /\ nodes[effects[e].kidneyModel].kind = "group"
    /\ effects[1].isHealthy /\ ~effects[2].isHealthy

\* C10 as stated: once the overlapping loads have all resolved, the one
\* that resolved last (the node created last) is the organ of the
\* displayed scene.
C10_LastResolvedIsShown ==
    (mounted /\ Len(effects) >= 2 /\ NoLoadInFlight) => DisplayedNodes = {Len(nodes)}

\* C10 amended: every organ attached to the displayed scene is the node of
\* the current effect's own load, issued for the current healthy value; a
\* load of an earlier effect attaches to that effect's scene only.
C10_DisplayedOrganIsCurrentLoad ==
    mounted =>
        /\ effects[Current].isHealthy = isHealthy
        /\ \A n \in DisplayedNodes : n = effects[Current].kidneyModel
        /\ \A e \in Effects : \A i \in DOMAIN effects[e].scene :
             effects[e].scene[i] = effects[e].kidneyModel

C10_Witness ==
    /\ mounted /\ Len(effects) = 2 /\ Len(nodes) = 2
    /\ effects[1].kidneyModel = 2
    /\ DisplayedNodes = {1}
    /\ ~isLoading

====
